---------------------------- MODULE Spec2Model ----------------------------
(***************************************************************************)
(* Policy/answer generator of Comms911DocTools: src/app.py (TERT, one      *)
(* section), src/pages/tert.py (TERT, six sections) and                    *)
(* src/pages/ng-911.py (NG9-1-1, six sections).                            *)
(*                                                                         *)
(* A Python str is a sequence of tokens.  A token is either one character  *)
(* that the code or a claim inspects on its own ("\n", " ") or a literal   *)
(* run of characters that is only ever copied ("---", "Section 1.0", a     *)
(* template line, a word of a document).  Concatenation is \o, startswith  *)
(* is IsPrefix, str.strip removes whitespace tokens at both ends.  None is *)
(* the reserved one-token sequence None, which no text contains; Str(x) is *)
(* Python's str(x) / f-string rendering, so Str(None) is the text "None".  *)
(* A token that stands for a long literal of a template is named by its    *)
(* opening words.                                                          *)
(***************************************************************************)
EXTENDS Naturals, Integers, Sequences, FiniteSets, TLC

VARIABLES
    app,                 \* which script runs this session: "app" | "tert" | "ng911"
    gemini_api_key,      \* st.session_state.gemini_api_key
    pdf_context,         \* st.session_state.pdf_context
    generated_sections,  \* st.session_state.generated_sections: a dict, kept in insertion order
    show_full_draft,     \* st.session_state.show_full_draft
    widget_inputs,       \* what the input widgets of Step 1 hold: user_inputs as main packages it
    last,                \* the last operation run, its request and what it produced
    client_inits,        \* how many times genai.Client(...) was invoked
    service_calls        \* how many times client.models.generate_content(...) was invoked

vars == <<app, gemini_api_key, pdf_context, generated_sections, show_full_draft,
          widget_inputs, last, client_inits, service_calls>>

-----------------------------------------------------------------------------
(* Bounds *)

\* largest number of uploaded documents in one batch
MaxDocs == 2
\* the call counters stop the model here
MaxCalls == 2

-----------------------------------------------------------------------------
(* Python values *)

None == <<"<None>">>

TruthyForAnyString(x) == x # None

Truthy(x) == x # None /\ x # <<>>

Str(x) == IF x = None THEN <<"None">> ELSE x

IsPrefixOnlyWhenEqual(p, s) == p = s

\* s.startswith(p)
IsPrefix(p, s) == Len(p) <= Len(s) /\ SubSeq(s, 1, Len(p)) = p

\* s[i:] of Python, 0-based i as a count of dropped tokens
DropFirst(s, n) == SubSeq(s, n + 1, Len(s))

Contains(s, sub) ==
    \E i \in 0..(Len(s) - Len(sub)) : SubSeq(s, i + 1, i + Len(sub)) = sub

HasToken(s, t) == \E i \in 1..Len(s) : s[i] = t

IsSpace(t) == t \in {" ", "\n"}

RECURSIVE LStrip(_)
LStrip(s) == IF s # <<>> /\ IsSpace(Head(s)) THEN LStrip(Tail(s)) ELSE s

RECURSIVE RStrip(_)
RStrip(s) ==
    IF s # <<>> /\ IsSpace(s[Len(s)]) THEN RStrip(SubSeq(s, 1, Len(s) - 1)) ELSE s

\* str.strip()
Strip(s) == RStrip(LStrip(s))

\* dict.get(key): None when the key is absent
DictGet(d, k) == IF k \in DOMAIN d THEN d[k] ELSE None

-----------------------------------------------------------------------------
(* Section tags *)

TertSections ==
    << <<"Section 1.0", ": Purpose, Scope, and Authority">>,
       <<"Section 2.0", ": Definitions and Acronyms">>,
       <<"Section 3.0", ": TERT Personnel Minimum Qualifications and Training">>,
       <<"Section 4.0", ": Activation and Deployment Steps">>,
       <<"Section 5.0", ": Logistics, Finance, and Equipment">>,
       <<"Section 6.0", ": Safety, Wellness, and Post-Mission Review">> >>

Ng911Sections ==
    << <<"Section 1.0", ": Purpose, Scope, and Authority (NG9-1-1)">>,
       <<"Section 2.0", ": NG9-1-1 Terminology and Acronyms">>,
       <<"Section 3.0", ": Multimedia and Non-Voice Call Handling Protocols">>,
       <<"Section 4.0", ": Geospatial Data and Location Management">>,
       <<"Section 5.0", ": Data Retention, Logging, and Interoperability">>,
       <<"Section 6.0", ": Cybersecurity, Resilience, and ESInet Monitoring">> >>

\* the one section_title of app.py
AppSection == <<"Section 3.0", ": TERT Personnel Minimum Qualifications and Training">>

\* list(POLICY_SECTIONS.keys()), in the order the dict literal gives
POLICY_SECTIONS(a) ==
    IF a = "tert" THEN TertSections
    ELSE IF a = "ng911" THEN Ng911Sections
    ELSE <<AppSection>>

Apps == {"app", "tert", "ng911"}


-----------------------------------------------------------------------------
(* get_pdf_text *)

\* A notice is one st.error / st.warning / st.success call: its kind, the
\* message it is built from, and the value interpolated into it.
Notice(kind, msg, arg) == [kind |-> kind, msg |-> msg, arg |-> arg]

\* page.extract_text() or " "
PageText(page) == IF Truthy(page) THEN page ELSE <<" ">>

RECURSIVE PagesText(_)
\* the inner loop: text += page.extract_text() or " ", page after page
PagesText(pages) ==
    IF pages = <<>> THEN <<>> ELSE PageText(Head(pages)) \o PagesText(Tail(pages))

\* the except branch of get_pdf_text: one st.error naming the document, then
\* return None (whatever text was accumulated is dropped)
PdfReadFailure(pdf, text) ==
    [value |-> None,
     notices |-> <<Notice("error", "Error reading PDF ", pdf.name)>>]

RECURSIVE PdfLoop(_, _)
\* the outer loop of get_pdf_text over the documents still to read, text being
\* the accumulator.  A document is [name, corrupt, pages]; corrupt stands for
\* any exception raised inside the try block (PdfReader(pdf) or a page).
PdfLoop(pdf_docs, text) ==
    IF pdf_docs = <<>> THEN [value |-> Strip(text), notices |-> <<>>]
    ELSE IF Head(pdf_docs).corrupt THEN PdfReadFailure(Head(pdf_docs), text)
    ELSE PdfLoop(Tail(pdf_docs), text \o PagesText(Head(pdf_docs).pages))

get_pdf_text(pdf_docs) == PdfLoop(pdf_docs, <<>>)

-----------------------------------------------------------------------------
(* generate_policy_section: prompt assembly *)

\* the else branch of the section chain
GenericGuidanceLeftEmpty(a) == <<>>

GenericGuidance(a) ==
    IF a = "ng911"
    THEN <<"Provide a comprehensive policy section based on all available inputs and NG9-1-1 best practices.">>
    ELSE <<"Provide a comprehensive policy section based on all available inputs and TERT best practices.">>

\* the if / elif chain of tert.py on section_title.startswith("Section N.0").
\* Indentation inside the triple-quoted literals is part of the literal tokens.
TertGuidance(section_title, user_inputs) ==
    IF IsPrefix(<<"Section 1.0">>, section_title) THEN
        <<"\n", "For this section, you MUST define the program's Purpose (using the TERT Program Goal input), Scope, and Authority (referencing the State Authority Reference input).", "\n">>
    ELSE IF IsPrefix(<<"Section 2.0">>, section_title) THEN
        <<"\n", "For this section, you MUST define all standard TERT terms. Additionally, you MUST include definitions for the following local roles/systems provided by the user: ">>
        \o Str(DictGet(user_inputs, "local_roles_to_define"))
        \o <<". Format the output as a clean, alphabetical Markdown definition list.", "\n">>
    ELSE IF IsPrefix(<<"Section 3.0">>, section_title) THEN
        <<"\n", "For this section, you MUST detail the minimum training and qualification requirements for all TERT personnel. You must strictly adhere to all SECTION 3.0 HARD CONSTRAINTS listed below.", "\n">>
    ELSE IF IsPrefix(<<"Section 4.0">>, section_title) THEN
        <<"\n", "For this section, you MUST provide a detailed, step-by-step procedure for TERT Activation and Deployment.", "\n",
          "- Activation Procedures MUST detail the process using the Local Request Mechanism: ">>
        \o Str(DictGet(user_inputs, "local_request_mechanism"))
        \o <<".", "\n", "- TERT Package Requirements MUST list the Essential TERT Package Items: ">>
        \o Str(DictGet(user_inputs, "tert_package_items"))
        \o <<" as provided by the Requesting PSAP.", "\n", "- Use numbered lists or clear bullet points for all procedural steps.", "\n">>
    ELSE IF IsPrefix(<<"Section 5.0">>, section_title) THEN
        <<"\n", "For this section, you MUST establish policies for financial management, reimbursement, and equipment. The policy MUST detail:", "\n",
          "1. **Reimbursement:** Use the mechanism: ">>
        \o Str(DictGet(user_inputs, "reimbursement_mechanism"))
        \o <<"\n", "2. **Per Diem/Expenses:** Detail the use of the daily limit of ">>
        \o Str(DictGet(user_inputs, "daily_expense_limit"))
        \o <<" and the required expense documentation.", "\n", "3. **Equipment Provisioning:** Clarify who provides equipment based on: ">>
        \o Str(DictGet(user_inputs, "equipment_provision"))
        \o <<". Use subheadings for clarity.", "\n">>
    ELSE IF IsPrefix(<<"Section 6.0">>, section_title) THEN
        <<"\n", "For this section, you MUST detail all protocols for TERT member safety, wellness, and post-mission procedures. The policy MUST include:", "\n",
          "1. **Safety Protocols:** Implement on-site safety using the guidance: ">>
        \o Str(DictGet(user_inputs, "on_site_safety_protocol"))
        \o <<".", "\n", "2. **Critical Incident Stress Management (CISM):** Detail access to CISM services using the reference: ">>
        \o Str(DictGet(user_inputs, "cism_policy_reference"))
        \o <<".", "\n", "3. **Post-Mission Review:** Make the TERT Deployment Review completion mandatory, to be completed within the following timeframe: ">>
        \o Str(DictGet(user_inputs, "post_mission_review_requirement"))
        \o <<".", "\n">>
    ELSE GenericGuidance("tert")

\* the if / elif chain of ng-911.py
Ng911Guidance(section_title, user_inputs) ==
    IF IsPrefix(<<"Section 1.0">>, section_title) THEN
        <<"\n", "For this section, you MUST define the program's Purpose (using the NG9-1-1 Program Goal input), Scope, and Authority. The scope must emphasize support for ">>
        \o Str(DictGet(user_inputs, "future_media_support"))
        \o <<".", "\n">>
    ELSE IF IsPrefix(<<"Section 2.0">>, section_title) THEN
        <<"\n", "For this section, you MUST define all standard NG9-1-1 terms based on the NENA i3 standard. Additionally, you MUST include definitions for the following local roles/systems provided by the user: ">>
        \o Str(DictGet(user_inputs, "local_roles_to_define"))
        \o <<". Format the output as a clean, alphabetical Markdown definition list.", "\n">>
    ELSE IF IsPrefix(<<"Section 3.0">>, section_title) THEN
        <<"\n", "For this section, you MUST detail the operational protocols for handling non-voice communications. The policy MUST include:", "\n",
          "1. **Text-to-911 Protocol:** Detail the handling and transfer protocol based on the following: ">>
        \o Str(DictGet(user_inputs, "text_handling_protocol"))
        \o <<".", "\n", "2. **Multimedia Policy:** Define rules for receiving and storing user-provided photos and videos, based on the following: ">>
        \o Str(DictGet(user_inputs, "multimedia_policy_guidance"))
        \o <<".", "\n", "3. **Real-Time Text (RTT):** Mandate compliance with RTT standards for accessibility.", "\n">>
    ELSE IF IsPrefix(<<"Section 4.0">>, section_title) THEN
        <<"\n", "For this section, you MUST provide detailed policies for location data management.", "\n",
          "- GIS Data Maintenance MUST detail the update frequency: ">>
        \o Str(DictGet(user_inputs, "gis_maintenance_frequency"))
        \o <<".", "\n", "- Location Discrepancy Protocol MUST define the required actions when caller location data and reported location conflict, based on: ">>
        \o Str(DictGet(user_inputs, "location_discrepancy_protocol"))
        \o <<".", "\n", "- Policy MUST state that location is determined by **geospatial routing** via the ECRF/ESRP.", "\n">>
    ELSE IF IsPrefix(<<"Section 5.0">>, section_title) THEN
        <<"\n", "For this section, you MUST establish policies for data retention, access, and sharing. The policy MUST detail:", "\n",
          "1. **Records Retention:** Use the time period: ">>
        \o Str(DictGet(user_inputs, "retention_period_policy"))
        \o <<" and specify it covers all media types.", "\n",
             "2. **Interoperability:** Define the mandatory data elements that must be transferred along with a call to another PSAP via the ESInet.", "\n",
             "3. **Access and Redaction:** Detail the procedures for public records requests and the required redaction protocol for sensitive multimedia based on: ">>
        \o Str(DictGet(user_inputs, "redaction_protocol"))
        \o <<". Use subheadings for clarity.", "\n">>
    ELSE IF IsPrefix(<<"Section 6.0">>, section_title) THEN
        <<"\n", "For this section, you MUST detail all protocols for NG9-1-1 system security and resilience. The policy MUST include:", "\n",
          "1. **Cybersecurity Measures:** Detail mandatory security practices based on the following guidance: ">>
        \o Str(DictGet(user_inputs, "cybersecurity_protocol"))
        \o <<".", "\n", "2. **Contingency Plan (COOP):** Detail the backup and failover process using the guidance: ">>
        \o Str(DictGet(user_inputs, "failover_plan_reference"))
        \o <<".", "\n", "3. **System Monitoring:** Make monitoring of the ESInet and Core Services mandatory, with all discrepancies reported to the responsible entity: ">>
        \o Str(DictGet(user_inputs, "monitoring_entity"))
        \o <<".", "\n">>
    ELSE GenericGuidance("ng911")

\* section_specific_prompt_guidance; app.py has no section chain
SectionGuidance(a, section_title, user_inputs) ==
    IF a = "tert" THEN TertGuidance(section_title, user_inputs)
    ELSE IF a = "ng911" THEN Ng911Guidance(section_title, user_inputs)
    ELSE <<>>

ContextBlockPlaceholderOnlyForNone(policy_context) ==
    IF policy_context = None THEN <<"No external document context provided.">>
    ELSE policy_context

\* {policy_context if policy_context else "No external document context provided."}
ContextBlock(policy_context) ==
    IF Truthy(policy_context) THEN policy_context
    ELSE <<"No external document context provided.">>

FieldLineWithoutValue(label, user_inputs, key) == <<label, "\n">>

\* one "- Label: {user_inputs.get('key')}" line of a template
FieldLine(label, user_inputs, key) ==
    <<label>> \o Str(DictGet(user_inputs, key)) \o <<"\n">>

OptionalContextSentenceAfterText(never_override, policy_context) ==
    <<"**OPTIONAL CONTEXT:**", "\n", "---", "\n">>
    \o ContextBlock(policy_context)
    \o <<"\n", "---", "\n", never_override, "\n">>

\* the OPTIONAL CONTEXT block of the three templates
OptionalContext(never_override, policy_context) ==
    <<"**OPTIONAL CONTEXT:**", "\n", never_override, "\n", "---", "\n">>
    \o ContextBlock(policy_context)
    \o <<"\n", "---", "\n">>

AppInstruction(section_title, user_inputs, policy_context) ==
    <<"\n", "You are a legal policy writer and certified NJTI-TERT expert for a Public Safety Answering Point (PSAP).", "\n",
      "Your task is to write the complete text for the policy section titled: \"">>
    \o section_title
    \o <<"\".", "\n", "The generated policy MUST be compliant with the APCO/NENA ANS 1.105.2-2015 Standard for TERT Deployment.", "\n", "\n",
         "**HARD CONSTRAINTS (NJTI-TERT Minimum Training):**", "\n",
         "1. TERT Telecommunicators MUST have successfully completed: ", "FEMA IS-144", ", ", "FEMA IS-100", ", and ", "FEMA IS-700", ".", "\n",
         "2. TERT Team Leaders MUST additionally complete: FEMA IS-200 and FEMA IS-800.", "\n", "\n",
         "**AGENCY & LOCAL CONTEXT:**", "\n">>
    \o FieldLine("- Agency Legal Name: ", user_inputs, "agency_name")
    \o FieldLine("- Authority Having Jurisdiction (AHJ): ", user_inputs, "ahj_name")
    \o FieldLine("- Required Background Check: ", user_inputs, "background_check")
    \o FieldLine("- Additional Required Training: ", user_inputs, "additional_training")
    \o <<"\n">>
    \o OptionalContext("- The following text, extracted from existing local policies or agreements, should be used for context and consistency, but NEVER override the Hard Constraints:", policy_context)
    \o <<"\n", "The final output MUST be a formal, professional policy section written in clear Markdown format, suitable for inclusion in a TERT Policy Manual.", "\n">>

TertInstruction(section_title, user_inputs, policy_context) ==
    <<"\n", "You are a legal policy writer and certified NJTI-TERT expert for a Public Safety Answering Point (PSAP).", "\n",
      "Your task is to write the complete text for the policy section titled: \"">>
    \o section_title
    \o <<"\".", "\n", "The generated policy MUST be compliant with the APCO/NENA ANS 1.105.2-2015 Standard for TERT Deployment.", "\n", "\n",
         "**GENERAL CONSTRAINTS & CONTEXT (For all Sections):**", "\n">>
    \o FieldLine("- Agency Legal Name: ", user_inputs, "agency_name")
    \o FieldLine("- Authority Having Jurisdiction (AHJ): ", user_inputs, "ahj_name")
    \o FieldLine("- TERT Program Goal: ", user_inputs, "ter_program_goal")
    \o FieldLine("- State Authority Reference: ", user_inputs, "state_authority_reference")
    \o <<"\n", "**--- SECTION-SPECIFIC GENERATION INSTRUCTIONS ---**", "\n">>
    \o SectionGuidance("tert", section_title, user_inputs)
    \o <<"\n", "\n", "**--- KEY CONSTRAINTS FOR REFERENCE (Always present for consistency) ---**", "\n",
         "**SECTION 3.0 HARD CONSTRAINTS (Qualifications and Training):**", "\n",
         "- TERT Telecommunicators MUST have successfully completed: ", "FEMA IS-144", ", ", "FEMA IS-100", ", and ", "FEMA IS-700", ".", "\n",
         "- TERT Team Leaders MUST additionally complete: FEMA IS-200 and FEMA IS-800.", "\n">>
    \o FieldLine("- Local Background Check: ", user_inputs, "background_check")
    \o FieldLine("- Additional Required Training: ", user_inputs, "additional_training")
    \o <<"\n">>
    \o OptionalContext("- The following text, extracted from existing local policies or agreements, should be used for context and consistency, but NEVER override the Hard Constraints:", policy_context)
    \o <<"\n", "The final output MUST be a formal, professional policy section written in clear Markdown format, suitable for inclusion in a TERT Policy Manual.", "\n">>

Ng911Instruction(section_title, user_inputs, policy_context) ==
    <<"\n", "You are a legal policy writer and certified **NG9-1-1 Policy Expert** for a Public Safety Answering Point (PSAP).", "\n",
      "Your task is to write the complete text for the policy section titled: \"">>
    \o section_title
    \o <<"\".", "\n", "The generated policy MUST be compliant with the **NENA i3 Standard** and APCO/NENA NG9-1-1 best practices.", "\n", "\n",
         "**GENERAL CONSTRAINTS & CONTEXT (For all Sections):**", "\n">>
    \o FieldLine("- Agency Legal Name: ", user_inputs, "agency_name")
    \o FieldLine("- Authority Having Jurisdiction (AHJ): ", user_inputs, "ahj_name")
    \o FieldLine("- NG9-1-1 Program Goal: ", user_inputs, "ng911_program_goal")
    \o FieldLine("- State Authority Reference: ", user_inputs, "state_authority_reference")
    \o <<"\n", "**--- SECTION-SPECIFIC GENERATION INSTRUCTIONS ---**", "\n">>
    \o SectionGuidance("ng911", section_title, user_inputs)
    \o <<"\n", "\n", "**--- KEY CONSTRAINTS FOR REFERENCE (Always present for consistency) ---**", "\n",
         "The policy must reflect the transition to a geospatial routing model and the use of the Emergency Services IP Network (ESInet).", "\n", "\n">>
    \o OptionalContext("- The following text, extracted from existing local policies or agreements, should be used for context and consistency, but NEVER override the NENA i3 standards:", policy_context)
    \o <<"\n", "The final output MUST be a formal, professional policy section written in clear Markdown format, suitable for inclusion in an NG9-1-1 Policy Manual.", "\n">>

\* system_instruction
SystemInstruction(a, section_title, user_inputs, policy_context) ==
    IF a = "tert" THEN TertInstruction(section_title, user_inputs, policy_context)
    ELSE IF a = "ng911" THEN Ng911Instruction(section_title, user_inputs, policy_context)
    ELSE AppInstruction(section_title, user_inputs, policy_context)

\* user_query
UserQuery(section_title) ==
    <<"Generate the full text for the policy section: ">> \o section_title
    \o <<" using all provided context and constraints.">>

-----------------------------------------------------------------------------
(* generate_policy_section: credential check, client, call, result *)

KeyMissingOnlyNone(api_key) == api_key = None

\* "if not api_key": None and the empty string are both falsy
KeyMissing(api_key) == ~Truthy(api_key)

MissingKeyResult ==
    <<"Error: Gemini API Key is missing. Please enter it in the sidebar.">>

ClientInitFailurePrefix == <<"Error: Failed to initialize Gemini client: ">>

\* except around genai.Client(api_key=api_key): the f-string with the exception
ClientInitExcept(e) ==
    [raised |-> FALSE,
     value |-> ClientInitFailurePrefix \o Str(e),
     notices |-> <<>>]

ServiceCallFailureResultSameAsMissingKey == MissingKeyResult

ServiceCallFailureResult ==
    <<"Error: Failed to generate policy. Check the API key or console for details.">>

ServiceCallExceptPropagates(e) ==
    [raised |-> TRUE, value |-> None, notices |-> <<>>]

\* except around client.models.generate_content(...): st.error, then the fixed text
ServiceCallExcept(e) ==
    [raised |-> FALSE,
     value |-> ServiceCallFailureResult,
     notices |-> <<Notice("error", "Gemini API call failed. Error: ", e)>>]

ServiceCallsIssuedWithRetry(call_outcome) == IF call_outcome.ok THEN 1 ELSE 2

\* the try block holds one generate_content call, in no loop and behind no cache
ServiceCallsIssued(call_outcome) == 1

\* What one invocation produces: whether an exception left the function, the
\* value returned, the branch taken (cause), how many clients it constructed
\* and service calls it issued, the notices it showed, and the prompt it
\* assembled (None when it returned before assembling one).
\* client_outcome = [ok, e] is what genai.Client(...) does, call_outcome =
\* [ok, text, e] what generate_content(...) does, when they are reached.
GeneratePolicySection(a, section_title, user_inputs, policy_context, api_key, client_outcome, call_outcome) ==
    IF KeyMissing(api_key) THEN
        [raised |-> FALSE, value |-> MissingKeyResult, cause |-> "missing_key",
         client_inits |-> 0, service_calls |-> 0, notices |-> <<>>,
         instruction |-> None, user_query |-> None]
    ELSE IF ~client_outcome.ok THEN
        LET x == ClientInitExcept(client_outcome.e) IN
        [raised |-> x.raised, value |-> x.value, cause |-> "client_init",
         client_inits |-> 1, service_calls |-> 0, notices |-> x.notices,
         instruction |-> None, user_query |-> None]
    ELSE
        LET instruction == SystemInstruction(a, section_title, user_inputs, policy_context)
            user_query == UserQuery(section_title)
        IN  IF call_outcome.ok THEN
                [raised |-> FALSE, value |-> call_outcome.text, cause |-> "success",
                 client_inits |-> 1, service_calls |-> ServiceCallsIssued(call_outcome),
                 notices |-> <<>>,
                 instruction |-> instruction, user_query |-> user_query]
            ELSE
                LET x == ServiceCallExcept(call_outcome.e) IN
                [raised |-> x.raised, value |-> x.value, cause |-> "service_call",
                 client_inits |-> 1, service_calls |-> ServiceCallsIssued(call_outcome),
                 notices |-> x.notices,
                 instruction |-> instruction, user_query |-> user_query]

FailureCauses == {"missing_key", "client_init", "service_call"}

-----------------------------------------------------------------------------
(* the result store: a Python dict, as the sequence of its items *)

DictKeys(d) == [i \in 1..Len(d) |-> d[i].title]

KeySet(d) == {d[i].title : i \in 1..Len(d)}

HasKey(d, k) == k \in KeySet(d)

\* d[k]; k is a key of d
DictItem(d, k) == (CHOOSE i \in 1..Len(d) : d[i].title = k)

DictValue(d, k) == d[DictItem(d, k)].content

DictSetDropsOtherKeys(d, k, v) == <<[title |-> k, content |-> v]>>

\* d[k] = v: an existing key keeps its place, a new key goes last
DictSet(d, k, v) ==
    IF HasKey(d, k)
    THEN [i \in 1..Len(d) |-> IF d[i].title = k THEN [title |-> k, content |-> v] ELSE d[i]]
    ELSE Append(d, [title |-> k, content |-> v])

\* code-point order of the tokens that tell two section tags apart
TokenRank(t) ==
    CASE t = "Section 1.0" -> 1
      [] t = "Section 2.0" -> 2
      [] t = "Section 3.0" -> 3
      [] t = "Section 4.0" -> 4
      [] t = "Section 5.0" -> 5
      [] t = "Section 6.0" -> 6
      [] t = "Section 7.0" -> 7
      [] OTHER -> 0

RECURSIVE StrLess(_, _)
\* s < t of Python strings
StrLess(s, t) ==
    IF t = <<>> THEN FALSE
    ELSE IF s = <<>> THEN TRUE
    ELSE IF Head(s) = Head(t) THEN StrLess(Tail(s), Tail(t))
    ELSE TokenRank(Head(s)) < TokenRank(Head(t))

RECURSIVE SortedSeq(_)
\* sorted(...) of a set of distinct strings
SortedSeq(S) ==
    IF S = {} THEN <<>>
    ELSE LET m == CHOOSE x \in S : \A y \in S \ {x} : StrLess(x, y)
         IN  <<m>> \o SortedSeq(S \ {m})

TextAreaIgnoresTyping(title, current_text, edits) == current_text

\* what st.text_area(..., current_text, key=...) returns in this run: the text
\* the widget of that key holds when edits names one (the text the user typed
\* into it in this run, or the text it kept from the run before), else the
\* text it is given
TextArea(title, current_text, edits) ==
    IF title \in DOMAIN edits THEN edits[title] ELSE current_text

\* The text area of a section is a keyed widget, and Streamlit keeps the value
\* of a keyed widget from run to run (st.rerun() does not discard it).  In the
\* rerun after a generation, the text area of a tag that was already displayed
\* is given a new text.  Whether a keyed widget that is given a new value
\* argument starts afresh with it or goes on returning the text it holds
\* differs between Streamlit releases (the widget identity is computed from
\* the arguments in some, from the key alone in others), and the repository
\* pins none: keyed tells which of the two this run does.  The result is the
\* edits argument of the display pass.
KeptByKey(keyed, d, title) ==
    IF keyed /\ HasKey(d, title) THEN title :> DictValue(d, title)
    ELSE [t \in {} |-> <<>>]

sorted_sectionsInDictOrder(d) == DictKeys(d)

\* sorted_sections = sorted(st.session_state.generated_sections.keys()): the
\* order in which the expanders and their text areas are shown
sorted_sections(d) == SortedSeq(KeySet(d))

RECURSIVE DisplayLoop(_, _, _)
\* for title in sorted_sections: generated_sections[title] = st.text_area(...)
DisplayLoop(d, titles, edits) ==
    IF titles = <<>> THEN d
    ELSE DisplayLoop(DictSet(d, Head(titles),
                             TextArea(Head(titles), DictValue(d, Head(titles)), edits)),
                     Tail(titles), edits)

\* the display part of main, which every run of the script that is not cut
\* short by st.rerun() executes.  edits is a record title :> text of the text
\* areas that hold another text than the one they are given: the one the user
\* changed (at most one per run), or the one KeptByKey names.  app.py shows
\* the one text area of its section when the section is stored.
DisplayPass(a, d, edits) ==
    IF d = <<>> THEN d
    ELSE IF a = "app" THEN
        IF HasKey(d, AppSection)
        THEN DictSet(d, AppSection, TextArea(AppSection, DictValue(d, AppSection), edits))
        ELSE d
    ELSE DisplayLoop(d, sorted_sections(d), edits)

SectionSeparator == <<"\n", "\n", "---", "\n", "\n">>

RenderSectionNoBlankLine(item) == <<"## ">> \o item.title \o <<"\n">> \o Str(item.content)

\* f"## {title}\n\n{content}"
RenderSection(item) == <<"## ">> \o item.title \o <<"\n", "\n">> \o Str(item.content)

RECURSIVE JoinEndingEachPart(_, _)
JoinEndingEachPart(sep, parts) ==
    IF parts = <<>> THEN <<>> ELSE parts[1] \o sep \o JoinEndingEachPart(sep, Tail(parts))

RECURSIVE Join(_, _)
\* sep.join(parts)
Join(sep, parts) ==
    IF parts = <<>> THEN <<>>
    ELSE IF Len(parts) = 1 THEN parts[1]
    ELSE parts[1] \o sep \o Join(sep, Tail(parts))

\* full_policy_text: the join over generated_sections.items(), in dict order
FullPolicyText(d) == Join(SectionSeparator, [i \in 1..Len(d) |-> RenderSection(d[i])])

-----------------------------------------------------------------------------
(* Inputs *)

\* DEFAULTS of main: the initial value of every input widget
TertDefaults ==
    [agency_name |-> <<"City of Willow Creek 9-1-1 Emergency Communications Center">>,
     ahj_name |-> <<"Willow Creek County Public Safety Commission">>,
     ter_program_goal |-> <<"To provide mutual aid and staffing relief to PSAPs affected by natural disasters, planned events, or critical incidents.">>,
     state_authority_reference |-> <<"Inter-Agency Mutual Aid Agreement (MAA-2024-001) as authorized by State Statute 48-9-904 et. seq.">>,
     local_roles_to_define |-> <<"PSAP Manager; Communications Unit Leader (COML); Local CAD System (Fire); Local Radio System.">>,
     background_check |-> <<"Standard Agency Fingerprint-based Check">>,
     additional_training |-> <<"Annual NIMS Refresher; Local CAD System Certification (Level 1); 40 hours of on-the-job mentorship.">>,
     local_request_mechanism |-> <<"PSAP Manager contacts County EMA who then contacts the State TERT Coordinator via secure channel.">>,
     tert_package_items |-> <<"PSAP Floor Plan; Primary Radio Channel List; CAD System Login Protocol; Local Acronym Sheet.">>,
     reimbursement_mechanism |-> <<"Deploying agency seeks reimbursement via State TERT Program/Federal EMAC upon declaration.">>,
     equipment_provision |-> <<"Deploying PSAP provides personal gear (laptop, headset). Receiving PSAP ensures operational radio and CAD access.">>,
     daily_expense_limit |-> <<"$75 per day">>,
     cism_policy_reference |-> <<"Access provided through County Employee Assistance Program (EAP) or State CISM Team (Policy 12.3).">>,
     post_mission_review_requirement |-> <<"Must be submitted within 72 hours of demobilization.">>,
     on_site_safety_protocol |-> <<"Required buddy system, daily check-in/out with TERT Team Leader, and adherence to Requesting PSAP's physical security procedures.">>]

Ng911Defaults ==
    [agency_name |-> <<"City of Willow Creek 9-1-1 Emergency Communications Center">>,
     ahj_name |-> <<"Willow Creek County Public Safety Commission">>,
     ng911_program_goal |-> <<"To fully transition the PSAP to the State ESInet to support all forms of digital communication.">>,
     state_authority_reference |-> <<"State 9-1-1 Act, Title 5, Chapter 32 (NG9-1-1 Funding and Governance)">>,
     local_roles_to_define |-> <<"ESInet Manager; GIS Data Steward; Cybersecurity Liaison; NENA i3 Compliance Officer.">>,
     future_media_support |-> <<"Text, Photos, Video, and real-time sensor data.">>,
     text_handling_protocol |-> <<"Text-to-911 is primary for deaf/hard of hearing or situations where voice is unsafe.">>,
     multimedia_policy_guidance |-> <<"Telecommunicator must request media for verification only.">>,
     gis_maintenance_frequency |-> <<"Monthly update of all road centerlines and annual revalidation of all Emergency Service Boundaries (ESBs).">>,
     location_discrepancy_protocol |-> <<"If caller location (GIS) and reported location conflict, the Telecommunicator must attempt to confirm the caller's stated location.">>,
     retention_period_policy |-> <<"Ten (10) years for all voice, text, CAD, and multimedia data.">>,
     redaction_protocol |-> <<"All multimedia (photos/video) must be fully redacted to remove PII prior to release for public records requests.">>,
     cybersecurity_protocol |-> <<"Mandatory use of multi-factor authentication, annual security training, and compliance with the NENA NG-SEC Standard.">>,
     failover_plan_reference |-> <<"Referenced in COOP Policy 15.1, requiring immediate failover to the geodiverse alternate PSAP upon ESInet failure detection.">>,
     monitoring_entity |-> <<"State 9-1-1 Office/System Administrator (SA) is the primary entity for ESInet monitoring and discrepancy reporting.">>]

\* the value= defaults of the four widgets of app.py
AppDefaults ==
    [agency_name |-> <<"City of Willow Creek 9-1-1 Emergency Communications Center">>,
     ahj_name |-> <<"Willow Creek County Public Safety Commission">>,
     background_check |-> <<"Standard Agency Fingerprint-based Check">>,
     additional_training |-> <<"Annual NIMS Refresher; Local CAD System Certification (Level 1); 40 hours of on-the-job mentorship.">>]

DEFAULTS(a) ==
    IF a = "tert" THEN TertDefaults
    ELSE IF a = "ng911" THEN Ng911Defaults
    ELSE AppDefaults

\* user_inputs as main packages it: every field present, two of them as typed
WidgetInputs(a) ==
    { DEFAULTS(a),
      [DEFAULTS(a) EXCEPT !.agency_name = <<"Test PSAP">>, !.ahj_name = <<"Test County">>] }

\* user_inputs a direct caller may pass: also dicts that lack fields
CallInputs(a) ==
    WidgetInputs(a)
    \cup { [k \in (DOMAIN DEFAULTS(a)) \ {"agency_name", "local_roles_to_define"} |-> DEFAULTS(a)[k]],
           [agency_name |-> <<"Test PSAP">>, ahj_name |-> <<"Test County">>] }

\* section titles a direct caller may pass: the enumerated tags, tags sharing
\* only the "Section N.0" prefix with one, and tags matching no branch
UnmatchedTitles ==
    { <<"Qualifications and Training">>,
      <<"Section 7.0", ": Records">>,
      <<"Appendix A">>,
      <<>> }

PrefixOnlyTitles ==
    { <<"Section 1.0", "5: Draft">>, <<"Section 4.0">> }

CallTitles(a) ==
    {POLICY_SECTIONS(a)[i] : i \in 1..Len(POLICY_SECTIONS(a))}
    \cup UnmatchedTitles \cup PrefixOnlyTitles

ApiKeys == { None, <<>>, <<"AIza-user-key">> }

\* texts the service may answer with: one with a level-2 heading line below its
\* first line, and the very text of the failure result
ResponseTexts ==
    { <<"All TERT members shall comply.", "\n", "## ", "3.1 Scope", "\n", "Scope text.">>,
      ServiceCallFailureResult }

\* texts the user may leave in a section's text area: one with a horizontal
\* rule between blank lines, and none at all
EditTexts == { <<"Part one.", "\n", "\n", "---", "\n", "\n", "Part two.">>, <<>> }

\* what genai.Client(...) may do; a direct caller also sees an exception with
\* an empty message
ClientOutcomes ==
    { [ok |-> TRUE, e |-> <<>>],
      [ok |-> FALSE, e |-> <<"API key not valid">>] }

CallClientOutcomes == ClientOutcomes \cup { [ok |-> FALSE, e |-> <<>>] }

CallOutcomes ==
    { [ok |-> TRUE, text |-> t, e |-> <<>>] : t \in ResponseTexts }
    \cup { [ok |-> FALSE, text |-> <<>>, e |-> <<"503 UNAVAILABLE">>] }

\* uploaded documents: [name, corrupt, pages]; a page is what extract_text()
\* returns for it (None and "" both occur for pages without a text layer)
Docs ==
    { [name |-> "policy.pdf", corrupt |-> FALSE, pages |-> << <<"alpha">>, <<"beta">> >>],
      [name |-> "scan.pdf",   corrupt |-> FALSE, pages |-> << <<>>, None >>],
      [name |-> "annex.pdf",  corrupt |-> FALSE, pages |-> << <<"gamma">> >>],
      [name |-> "broken.pdf", corrupt |-> TRUE,  pages |-> <<>>],
      [name |-> "damaged.pdf", corrupt |-> TRUE, pages |-> <<>>] }

\* pdf_docs of the file uploader: any list of at most MaxDocs different documents
Batches ==
    UNION { {b \in [1..n -> Docs] : \A i, j \in 1..n : b[i] = b[j] => i = j} : n \in 0..MaxDocs }

\* pdf_docs in the session runs: nothing uploaded, one document of each kind,
\* and a readable document with a corrupt one in both orders
SessionBatches ==
    LET doc(n) == CHOOSE d \in Docs : d.name = n
    IN  { <<>>, <<doc("policy.pdf")>>, <<doc("scan.pdf")>>, <<doc("broken.pdf")>>,
          <<doc("policy.pdf"), doc("broken.pdf")>>, <<doc("broken.pdf"), doc("policy.pdf")>> }

PolicyContexts == { None, <<>>, <<" ">>, <<"alpha", "beta">> }

-----------------------------------------------------------------------------
(* Session state and the runs of main *)

NoEdits == [t \in {} |-> <<>>]

Request(section_title, user_inputs, policy_context, api_key) ==
    [section_title |-> section_title, user_inputs |-> user_inputs,
     policy_context |-> policy_context, api_key |-> api_key]

NoRequest == Request(<<>>, [none |-> None], <<>>, <<>>)

\* what an operation that is not a generation leaves in `last`
Outcome(op, pdf_docs, value, notices) ==
    [op |-> op, request |-> NoRequest,
     pdf_docs |-> pdf_docs, raised |-> FALSE, value |-> value,
     cause |-> "none", client_inits |-> 0, service_calls |-> 0,
     notices |-> notices, instruction |-> None, user_query |-> None]

\* what a generation leaves in `last`: req its arguments, r the record of
\* GeneratePolicySection, notices all the notices of the run
GenerationOutcome(op, req, r, notices) ==
    [op |-> op, request |-> req, pdf_docs |-> <<>>, raised |-> r.raised, value |-> r.value,
     cause |-> r.cause, client_inits |-> r.client_inits,
     service_calls |-> r.service_calls,
     notices |-> notices, instruction |-> r.instruction, user_query |-> r.user_query]

\* the "if 'x' not in st.session_state" block at the top of main, the api key
\* text input, empty until the user types, and the input widgets at their
\* value= defaults
FreshSession ==
    /\ gemini_api_key = <<>>
    /\ pdf_context = <<>>
    /\ generated_sections = <<>>
    /\ show_full_draft = FALSE
    /\ widget_inputs = DEFAULTS(app)
    /\ client_inits = 0
    /\ service_calls = 0

Init ==
    /\ app \in Apps
    /\ FreshSession
    /\ last = Outcome("init", <<>>, None, <<>>)

\* the options of the section dropdown the user picks among: the first two
\* keys of POLICY_SECTIONS; app.py has no dropdown and one section
SelectableSectionsWithFreeText(a) ==
    {POLICY_SECTIONS(a)[1], <<"Section 9.0: Local Addendum">>}

SelectableSections(a) ==
    IF a = "app" THEN {AppSection}
    ELSE {POLICY_SECTIONS(a)[1], POLICY_SECTIONS(a)[2]}

\* the user types into the API key field; the script reruns
SetApiKey(k) ==
    /\ k # gemini_api_key
    /\ gemini_api_key' = k
    /\ generated_sections' = DisplayPass(app, generated_sections, NoEdits)
    /\ last' = Outcome("set_api_key", <<>>, None, <<>>)
    /\ UNCHANGED <<app, widget_inputs, pdf_context, show_full_draft, client_inits, service_calls>>

ExtractResultStoresBeforeTesting(pdf_docs, context) ==
    IF pdf_docs # <<>> THEN
        LET r == get_pdf_text(pdf_docs) IN
        [pdf_context |-> r.value, value |-> r.value,
         notices |-> r.notices \o
             (IF Truthy(r.value)
              THEN <<Notice("success", "Successfully loaded characters of local context.", Len(r.value))>>
              ELSE <<Notice("error", "Could not extract any text from the uploaded PDFs.", <<>>)>>)]
    ELSE [pdf_context |-> <<>>, value |-> None,
          notices |-> <<Notice("warning", "No PDFs uploaded.", <<>>)>>]

\* the user types into input fields of Step 1; the script reruns.  The fields
\* are keyed widgets given the same value= argument in every run, so they hold
\* what was typed from then on.
SetInputs(u) ==
    /\ u # widget_inputs
    /\ widget_inputs' = u
    /\ generated_sections' = DisplayPass(app, generated_sections, NoEdits)
    /\ last' = Outcome("set_inputs", <<>>, None, <<>>)
    /\ UNCHANGED <<app, gemini_api_key, pdf_context, show_full_draft, client_inits, service_calls>>

\* the body of `if st.button("Extract PDF Context")`: the new pdf_context and
\* the notices shown
ExtractResult(pdf_docs, context) ==
    IF pdf_docs # <<>> THEN
        LET r == get_pdf_text(pdf_docs) IN
        IF Truthy(r.value)
        THEN [pdf_context |-> r.value, value |-> r.value,
              notices |-> r.notices \o <<Notice("success", "Successfully loaded characters of local context.", Len(r.value))>>]
        ELSE [pdf_context |-> context, value |-> r.value,
              notices |-> r.notices \o <<Notice("error", "Could not extract any text from the uploaded PDFs.", <<>>)>>]
    ELSE [pdf_context |-> <<>>, value |-> None,
          notices |-> <<Notice("warning", "No PDFs uploaded.", <<>>)>>]

ExtractPdfContextResetsOnFailure(pdf_docs) ==
    LET x == ExtractResult(pdf_docs, pdf_context) IN
    /\ pdf_context' = IF Truthy(x.value) THEN x.pdf_context ELSE <<>>
    /\ generated_sections' = DisplayPass(app, generated_sections, NoEdits)
    /\ last' = Outcome("extract", pdf_docs, x.value, x.notices)
    /\ UNCHANGED <<app, widget_inputs, gemini_api_key, show_full_draft, client_inits, service_calls>>

ExtractPdfContext(pdf_docs) ==
    LET x == ExtractResult(pdf_docs, pdf_context) IN
    /\ pdf_context' = x.pdf_context
    /\ generated_sections' = DisplayPass(app, generated_sections, NoEdits)
    /\ last' = Outcome("extract", pdf_docs, x.value, x.notices)
    /\ UNCHANGED <<app, widget_inputs, gemini_api_key, show_full_draft, client_inits, service_calls>>

ClearAllKeepsContext ==
    /\ generated_sections' = <<>>
    /\ show_full_draft' = FALSE
    /\ last' = Outcome("clear", <<>>, None, <<>>)
    /\ UNCHANGED <<app, widget_inputs, gemini_api_key, pdf_context, client_inits, service_calls>>

\* clear_session_state (tert.py, ng-911.py; the three keys exist once main has
\* started) and the 'Clear All Generated Sections' branch of app.py; the rerun
\* that follows finds the store empty and displays no section
ClearAll ==
    /\ generated_sections' = <<>>
    /\ pdf_context' = <<>>
    /\ show_full_draft' = FALSE
    /\ last' = Outcome("clear", <<>>, None, <<>>)
    /\ UNCHANGED <<app, widget_inputs, gemini_api_key, client_inits, service_calls>>

GenerateWithoutKeyTest(selected_section_title, user_inputs, client_outcome, call_outcome, keyed) ==
    LET req == Request(selected_section_title, user_inputs, pdf_context, gemini_api_key)
        r == GeneratePolicySection(app, selected_section_title, user_inputs,
                                   pdf_context, gemini_api_key,
                                   client_outcome, call_outcome)
    IN  /\ client_inits + r.client_inits <= MaxCalls
        /\ show_full_draft' = FALSE
        /\ client_inits' = client_inits + r.client_inits
        /\ service_calls' = service_calls + r.service_calls
        /\ generated_sections' =
               DisplayPass(app, DictSet(generated_sections, selected_section_title, r.value),
                           KeptByKey(keyed, generated_sections, selected_section_title))
        /\ last' = GenerationOutcome("generate", req, r,
               r.notices \o <<Notice("success", "Policy section generated successfully!", selected_section_title)>>)
        /\ UNCHANGED <<app, widget_inputs, gemini_api_key, pdf_context>>

\* the body of the generate button of main, and the rerun it ends with
Generate(selected_section_title, user_inputs, client_outcome, call_outcome, keyed) ==
    IF ~Truthy(gemini_api_key) THEN
        /\ generated_sections' = DisplayPass(app, generated_sections, NoEdits)
        /\ last' = [Outcome("generate", <<>>, None,
                            <<Notice("error", "Please enter your Gemini API Key in the sidebar to proceed.", <<>>)>>)
                    EXCEPT !.cause = "no_session_key"]
        /\ UNCHANGED <<app, widget_inputs, gemini_api_key, pdf_context, show_full_draft,
                       client_inits, service_calls>>
    ELSE
        LET req == Request(selected_section_title, user_inputs, pdf_context, gemini_api_key)
            r == GeneratePolicySection(app, selected_section_title, user_inputs,
                                       pdf_context, gemini_api_key,
                                       client_outcome, call_outcome)
        IN  /\ client_inits + r.client_inits <= MaxCalls
            /\ show_full_draft' = FALSE
            /\ client_inits' = client_inits + r.client_inits
            /\ service_calls' = service_calls + r.service_calls
            /\ IF r.raised
               THEN /\ generated_sections' = generated_sections
                    /\ last' = GenerationOutcome("generate", req, r, r.notices)
               ELSE /\ generated_sections' =
                          DisplayPass(app, DictSet(generated_sections, selected_section_title, r.value),
                                      KeptByKey(keyed, generated_sections, selected_section_title))
                    /\ last' = GenerationOutcome("generate", req, r,
                          r.notices \o <<Notice("success", "Policy section generated successfully!", selected_section_title)>>)
            /\ UNCHANGED <<app, widget_inputs, gemini_api_key, pdf_context>>

\* the user changes the text area of a displayed section; the script reruns
EditSection(title, text) ==
    /\ HasKey(generated_sections, title)
    /\ text # DictValue(generated_sections, title)
    /\ generated_sections' = DisplayPass(app, generated_sections, title :> text)
    /\ last' = [Outcome("edit", <<>>, text, <<>>) EXCEPT !.request.section_title = title]
    /\ UNCHANGED <<app, widget_inputs, gemini_api_key, pdf_context, show_full_draft,
                   client_inits, service_calls>>

\* the "Display Full Draft Policy" button of tert.py and ng-911.py
ToggleFullDraft ==
    /\ app # "app"
    /\ generated_sections # <<>>
    /\ show_full_draft' = ~show_full_draft
    /\ generated_sections' = DisplayPass(app, generated_sections, NoEdits)
    /\ last' = Outcome("toggle", <<>>, None, <<>>)
    /\ UNCHANGED <<app, widget_inputs, gemini_api_key, pdf_context, client_inits, service_calls>>

Next ==
    \/ \E k \in ApiKeys \ {None} : SetApiKey(k)
    \/ \E pdf_docs \in SessionBatches : ExtractPdfContext(pdf_docs)
    \/ ClearAll
    \/ \E u \in WidgetInputs(app) : SetInputs(u)
    \/ \E t \in SelectableSections(app), c \in ClientOutcomes, o \in CallOutcomes,
          keyed \in BOOLEAN : Generate(t, widget_inputs, c, o, keyed)
    \/ \E t \in SelectableSections(app), x \in EditTexts \cup ResponseTexts : EditSection(t, x)
    \/ ToggleFullDraft

Spec == Init /\ [][Next]_vars

-----------------------------------------------------------------------------
(* the sidebar on its own: extractions over every batch, and clear *)

NextExtract ==
    \/ \E pdf_docs \in Batches : ExtractPdfContext(pdf_docs)
    \/ ClearAll

ExtractSpec == Init /\ [][NextExtract]_vars

-----------------------------------------------------------------------------
(* generate_policy_section called directly, again and again with one request *)

InitCall ==
    /\ app \in Apps
    /\ FreshSession
    /\ \E t \in CallTitles(app), u \in CallInputs(app), c \in PolicyContexts, k \in ApiKeys :
           last = [Outcome("init", <<>>, None, <<>>) EXCEPT !.request = Request(t, u, c, k)]

CallGenerate(client_outcome, call_outcome) ==
    LET req == last.request
        r == GeneratePolicySection(app, req.section_title, req.user_inputs,
                                   req.policy_context, req.api_key,
                                   client_outcome, call_outcome)
    IN  /\ client_inits + r.client_inits <= MaxCalls
        /\ client_inits' = client_inits + r.client_inits
        /\ service_calls' = service_calls + r.service_calls
        /\ last' = GenerationOutcome("call", req, r, r.notices)
        /\ UNCHANGED <<app, widget_inputs, gemini_api_key, pdf_context, generated_sections, show_full_draft>>

NextCall == \E c \in CallClientOutcomes, o \in CallOutcomes : CallGenerate(c, o)

CallSpec == InitCall /\ [][NextCall]_vars

-----------------------------------------------------------------------------
(* Reading an exported document back *)

RECURSIVE SplitOn(_, _)
\* text.split(sep): the pieces between the occurrences of sep, found from the left
SplitOn(text, sep) ==
    IF ~Contains(text, sep) THEN <<text>>
    ELSE LET i == CHOOSE k \in 0..(Len(text) - Len(sep)) :
                      /\ SubSeq(text, k + 1, k + Len(sep)) = sep
                      /\ \A m \in 0..(k - 1) : SubSeq(text, m + 1, m + Len(sep)) # sep
         IN  <<SubSeq(text, 1, i)>> \o SplitOn(DropFirst(text, i + Len(sep)), sep)

\* text.find(t): how many tokens precede the first t; Len(text) when there is none
IndexOf(text, t) ==
    IF HasToken(text, t)
    THEN (CHOOSE i \in 1..Len(text) : text[i] = t /\ \A m \in 1..(i - 1) : text[m] # t) - 1
    ELSE Len(text)

\* one piece of the export read as "## <tag>", a blank line, the text below
ParseSection(piece) ==
    LET line == SubSeq(piece, 1, IndexOf(piece, "\n"))
        below == DropFirst(piece, Len(line))
    IN  IF IsPrefix(<<"## ">>, line) /\ IsPrefix(<<"\n", "\n">>, below)
        THEN [title |-> DropFirst(line, 1), content |-> DropFirst(below, 2)]
        ELSE [title |-> None, content |-> piece]

\* the (tag, text) pairs read from an exported document
ParseExport(text) ==
    LET pieces == SplitOn(text, SectionSeparator)
    IN  {ParseSection(pieces[i]) : i \in 1..Len(pieces)}

StoredPairs(d) == {d[i] : i \in 1..Len(d)}

-----------------------------------------------------------------------------
(* Claims *)

\* C1: in app.py, tert.py and ng-911.py alike, generate_policy_section called
\* with api_key None or "" returns the missing-key result, constructs no
\* client and issues no call to the generation service.
C1_MissingKeyReturnsWithoutClientOrCall ==
    (last.op = "call" /\ last.request.api_key \in {None, <<>>})
        => /\ ~last.raised
           /\ last.value = <<"Error: Gemini API Key is missing. Please enter it in the sidebar.">>
           /\ last.client_inits = 0 /\ last.service_calls = 0
           /\ client_inits = 0 /\ service_calls = 0

C1_Witness ==
    /\ last.op = "call" /\ last.request.api_key = <<>> /\ app = "ng911"
    /\ last.cause = "missing_key" /\ client_inits = 0

\* the documents of a batch that parse
ReadableDocs(pdf_docs) ==
    LET Readable(pdf) == ~pdf.corrupt IN SelectSeq(pdf_docs, Readable)

CorruptCount(pdf_docs) == Cardinality({i \in 1..Len(pdf_docs) : pdf_docs[i].corrupt})

\* C2: an extraction over a batch of several documents of which exactly one
\* fails to parse (the others holding text) returns the concatenated text of
\* the other documents, and the action stores it as the reference context.
C2_OneCorruptDocumentKeepsTheRest ==
    (/\ last.op = "extract" /\ Len(last.pdf_docs) >= 2
     /\ CorruptCount(last.pdf_docs) = 1
     /\ Truthy(get_pdf_text(ReadableDocs(last.pdf_docs)).value))
        => /\ last.value = get_pdf_text(ReadableDocs(last.pdf_docs)).value
           /\ pdf_context = last.value

IsSortedTitles(titles) ==
    \A i, j \in 1..Len(titles) : i < j => StrLess(titles[i], titles[j])

\* C3: the exported document lists the stored sections in lexicographic order
\* of their tags, whatever order they were generated in.
C3_ExportInLexicographicOrder ==
    generated_sections # <<>>
        => LET pieces == SplitOn(FullPolicyText(generated_sections), SectionSeparator)
               headed == SelectSeq(pieces, LAMBDA p : /\ Len(p) >= 3
                                                     /\ p[1] = "## "
                                                     /\ TokenRank(p[2]) > 0)
           IN  IsSortedTitles([i \in 1..Len(headed) |-> SubSeq(headed[i], 2, 3)])

\* C4: whatever client construction and the service call do (fail or succeed),
\* generate_policy_section returns a value and no exception leaves it.
C4_NoExceptionLeavesGenerate ==
    last.op = "call" => ~last.raised

C4_Witness ==
    /\ last.op = "call" /\ last.cause = "service_call" /\ ~last.raised
    /\ client_inits = 2

HasNotice(notices, kind) == \E i \in 1..Len(notices) : notices[i].kind = kind

LooksLikeFailure(value) ==
    \/ value = <<"Error: Gemini API Key is missing. Please enter it in the sidebar.">>
    \/ IsPrefix(<<"Error: Failed to initialize Gemini client: ">>, value)
    \/ value = <<"Error: Failed to generate policy. Check the API key or console for details.">>

\* C5: main can tell a successful generation from a failed one: a failure
\* result is not treated as a success (no success notice), and a successful
\* response never yields a result that reads as a failure result.
C5_ResultIsDiscriminated ==
    last.op = "generate" /\ last.cause \in (FailureCauses \cup {"success"})
        => /\ last.cause \in FailureCauses => ~HasNotice(last.notices, "success")
           /\ last.cause = "success" => ~LooksLikeFailure(last.value)

\* the cause category a caller reads off a failure result
CauseOfResult(value) ==
    IF value = <<"Error: Gemini API Key is missing. Please enter it in the sidebar.">>
    THEN "missing_key"
    ELSE IF IsPrefix(<<"Error: Failed to initialize Gemini client: ">>, value)
    THEN "client_init"
    ELSE IF value = <<"Error: Failed to generate policy. Check the API key or console for details.">>
    THEN "service_call"
    ELSE "none"

\* C6: every failure of generate_policy_section returns the result of its own
\* cause category (missing credential, client construction, service call), and
\* the results of different categories differ.
C6_FailureResultIdentifiesCause ==
    (last.op = "call" /\ last.cause \in FailureCauses)
        => CauseOfResult(last.value) = last.cause

C6_Witness ==
    /\ last.op = "call" /\ last.cause = "service_call"
    /\ CauseOfResult(last.value) = "service_call"

\* C7: every invocation that has a credential and a constructed client issues
\* exactly one call to the generation service: invoked again with the same
\* request it calls again, and a failed call is not repeated.
C7_ExactlyOneCallPerInvocation ==
    [][ (last'.op = "call" /\ last'.cause \in {"success", "service_call"})
            => (service_calls' = service_calls + 1 /\ last'.service_calls = 1) ]_vars

C7_Witness ==
    /\ last.op = "call" /\ last.cause = "service_call"
    /\ service_calls = 2 /\ client_inits = 2

\* C8 as stated: for every reachable store, splitting the export at its
\* separators and reading each heading and the text below recovers exactly the
\* stored (tag, text) pairs, also when a text holds a horizontal rule or a
\* level-2 heading line.
C8_RoundTripOfEveryStore ==
    generated_sections # <<>>
        => ParseExport(FullPolicyText(generated_sections)) = StoredPairs(generated_sections)

HasRule(d) == \E i \in 1..Len(d) : HasToken(d[i].content, "---")

HasHeadingLine(d) == \E i \in 1..Len(d) : HasToken(d[i].content, "## ")

\* C8 amended: the round trip recovers exactly the stored pairs for every
\* store in which no text holds a horizontal-rule line "---"; texts holding
\* level-2 heading lines are recovered as they are.
C8_RoundTripWithoutRules ==
    (generated_sections # <<>> /\ ~HasRule(generated_sections))
        => ParseExport(FullPolicyText(generated_sections)) = StoredPairs(generated_sections)

C8_Witness ==
    /\ Len(generated_sections) = 2
    /\ ~HasRule(generated_sections) /\ HasHeadingLine(generated_sections)
    /\ ParseExport(FullPolicyText(generated_sections)) = StoredPairs(generated_sections)

\* C9: a named input field that user_inputs lacks is substituted into the
\* instruction as the empty string, and the assembly does not fail.
C9_MissingFieldIsEmptyString ==
    (last.op = "call" /\ last.cause \in {"success", "service_call"}
        /\ "agency_name" \notin DOMAIN last.request.user_inputs)
        => /\ ~last.raised
           /\ Contains(last.instruction, <<"- Agency Legal Name: ", "\n">>)

NoBranchMatches(section_title) ==
    \A t \in {"Section 1.0", "Section 2.0", "Section 3.0",
              "Section 4.0", "Section 5.0", "Section 6.0"} : ~IsPrefix(<<t>>, section_title)

\* C10: in tert.py and ng-911.py, for a section tag that matches no section
\* fragment the assembled instruction carries the generic "comprehensive
\* policy section based on all available inputs" fragment, and assembly does
\* not fail.
C10_UnmatchedTagGetsGenericFragment ==
    (last.op = "call" /\ app \in {"tert", "ng911"}
        /\ last.cause \in {"success", "service_call"}
        /\ NoBranchMatches(last.request.section_title))
        => /\ ~last.raised
           /\ Contains(last.instruction,
                <<"**--- SECTION-SPECIFIC GENERATION INSTRUCTIONS ---**", "\n",
                  IF app = "tert"
                  THEN "Provide a comprehensive policy section based on all available inputs and TERT best practices."
                  ELSE "Provide a comprehensive policy section based on all available inputs and NG9-1-1 best practices.",
                  "\n">>)

C10_Witness ==
    /\ last.op = "call" /\ app = "tert" /\ last.cause = "success"
    /\ last.request.section_title = <<"Qualifications and Training">>
    /\ HasToken(last.instruction, "Provide a comprehensive policy section based on all available inputs and TERT best practices.")

-----------------------------------------------------------------------------
(* Claims on prompt assembly *)

\* the enumerated tags: the keys of POLICY_SECTIONS
EnumeratedTags(a) == {POLICY_SECTIONS(a)[i] : i \in 1..Len(POLICY_SECTIONS(a))}

\* the section-specific block as it stands in an instruction
GuidanceBlock(guidance) ==
    <<"**--- SECTION-SPECIFIC GENERATION INSTRUCTIONS ---**", "\n">> \o guidance \o <<"\n">>

\* a call of tert.py or ng-911.py that got as far as assembling the instruction
AssembledChainCall ==
    /\ last.op = "call" /\ app \in {"tert", "ng911"}
    /\ last.cause \in {"success", "service_call"}

\* C11 as stated: a tag that is not exactly one of the keys of POLICY_SECTIONS
\* gets the generic fragment, also when it shares the "Section N.0" prefix
\* with a key.
C11_FragmentByExactMatch ==
    (AssembledChainCall /\ last.request.section_title \notin EnumeratedTags(app))
        => Contains(last.instruction, GuidanceBlock(GenericGuidance(app)))

\* the number N of the first "Section N.0" the tag begins with, 0 when none
SharedPrefix(a, section_title) ==
    IF section_title # <<>> /\ \E n \in 1..6 : POLICY_SECTIONS(a)[n][1] = section_title[1]
    THEN CHOOSE n \in 1..6 : POLICY_SECTIONS(a)[n][1] = section_title[1]
    ELSE 0

\* C11 amended: the fragment is chosen by the "Section N.0" prefix of the tag.
\* A tag that begins with "Section N.0" of an enumerated tag, whether or not it
\* is that tag, gets the fragment of that enumerated tag and not the generic
\* one; a tag that begins with none of them gets the generic fragment.
C11_FragmentByPrefix ==
    AssembledChainCall
        => LET n == SharedPrefix(app, last.request.section_title)
           IN  IF n = 0
               THEN Contains(last.instruction, GuidanceBlock(GenericGuidance(app)))
               ELSE /\ Contains(last.instruction,
                         GuidanceBlock(SectionGuidance(app, POLICY_SECTIONS(app)[n],
                                                       last.request.user_inputs)))
                    /\ ~Contains(last.instruction, GenericGuidance(app))

C11_Witness ==
    /\ AssembledChainCall /\ app = "tert" /\ last.cause = "success"
    /\ last.request.section_title = <<"Section 1.0", "5: Draft">>
    /\ SharedPrefix(app, last.request.section_title) = 1
    /\ ~Contains(last.instruction, GenericGuidance(app))

\* a call of any of the three scripts that got as far as assembling the instruction
AssembledCall == last.op = "call" /\ last.cause \in {"success", "service_call"}

\* what stands between the two rules of the optional-context block
BetweenRules(text) == <<"\n", "---", "\n">> \o text \o <<"\n", "---", "\n">>

\* C12: when the reference text of the request is None or the empty string,
\* the optional-context block of the instruction holds the sentence "No
\* external document context provided." and is not empty; when the reference
\* text is not empty the block holds that text as it is and the instruction
\* does not hold the placeholder sentence.
C12_PlaceholderForEmptyContext ==
    AssembledCall
        => LET c == last.request.policy_context
           IN  IF c \in {None, <<>>}
               THEN /\ Contains(last.instruction, BetweenRules(<<"No external document context provided.">>))
                    /\ ~Contains(last.instruction, BetweenRules(<<>>))
               ELSE /\ Contains(last.instruction, BetweenRules(c))
                    /\ ~HasToken(last.instruction, "No external document context provided.")

C12_Witness ==
    /\ AssembledCall /\ app = "ng911" /\ last.request.policy_context = <<>>
    /\ HasToken(last.instruction, "No external document context provided.")

\* the field of user_inputs stands in the instruction as supplied, if supplied
SuppliedVerbatim(instruction, label, user_inputs, key) ==
    key \in DOMAIN user_inputs
        => Contains(instruction, <<label>> \o user_inputs[key] \o <<"\n">>)

\* C13: in app.py and tert.py, whatever the section tag, the input mapping and
\* the reference text, the assembled instruction holds the literals "FEMA
\* IS-144", "FEMA IS-100" and "FEMA IS-700" and the supplied values of
\* agency_name and ahj_name as they were supplied.
C13_TertHardConstraintsAndAgency ==
    (AssembledCall /\ app \in {"app", "tert"})
        => /\ \A lit \in {"FEMA IS-144", "FEMA IS-100", "FEMA IS-700"} :
                  HasToken(last.instruction, lit)
           /\ SuppliedVerbatim(last.instruction, "- Agency Legal Name: ",
                               last.request.user_inputs, "agency_name")
           /\ SuppliedVerbatim(last.instruction, "- Authority Having Jurisdiction (AHJ): ",
                               last.request.user_inputs, "ahj_name")

C13_Witness ==
    /\ AssembledCall /\ app = "tert"
    /\ last.request.user_inputs = [agency_name |-> <<"Test PSAP">>, ahj_name |-> <<"Test County">>]
    /\ last.request.section_title = <<"Qualifications and Training">>
    /\ last.request.policy_context = <<>>
    /\ Contains(last.instruction, <<"- Agency Legal Name: ", "Test PSAP", "\n">>)
    /\ HasToken(last.instruction, "FEMA IS-144")

\* where sub first begins in s (1-based); Len(s) + 1 when it does not occur
FirstIndex(s, sub) ==
    IF Contains(s, sub)
    THEN CHOOSE i \in 1..Len(s) :
             /\ i + Len(sub) - 1 <= Len(s)
             /\ SubSeq(s, i, i + Len(sub) - 1) = sub
             /\ \A m \in 1..(i - 1) : SubSeq(s, m, m + Len(sub) - 1) # sub
    ELSE Len(s) + 1

\* the heading of the hard / key constraints block of each template
ConstraintsHeading(a) ==
    IF a = "app" THEN "**HARD CONSTRAINTS (NJTI-TERT Minimum Training):**"
    ELSE "**--- KEY CONSTRAINTS FOR REFERENCE (Always present for consistency) ---**"

\* the lines of the constraints block that each template always carries
ConstraintLines(a) ==
    IF a = "ng911"
    THEN {"The policy must reflect the transition to a geospatial routing model and the use of the Emergency Services IP Network (ESInet)."}
    ELSE IF a = "tert"
    THEN {"**SECTION 3.0 HARD CONSTRAINTS (Qualifications and Training):**",
          "FEMA IS-144", "FEMA IS-100", "FEMA IS-700",
          "- TERT Team Leaders MUST additionally complete: FEMA IS-200 and FEMA IS-800."}
    ELSE {"FEMA IS-144", "FEMA IS-100", "FEMA IS-700",
          "2. TERT Team Leaders MUST additionally complete: FEMA IS-200 and FEMA IS-800."}

\* the sentence saying the reference text is context only
NeverOverride(a) ==
    IF a = "ng911"
    THEN "- The following text, extracted from existing local policies or agreements, should be used for context and consistency, but NEVER override the NENA i3 standards:"
    ELSE "- The following text, extracted from existing local policies or agreements, should be used for context and consistency, but NEVER override the Hard Constraints:"

\* C14: in every assembled instruction of the three scripts the constraints
\* block (its heading and its fixed lines) comes before the optional-context
\* block, and the sentence that the reference text is for context only and
\* must never override the constraints comes before the reference text, which
\* stands between the two rules after it.
C14_ConstraintsBeforeContext ==
    AssembledCall
        => LET ins == last.instruction
               c == last.request.policy_context
               shown == IF c \in {None, <<>>} THEN <<"No external document context provided.">> ELSE c
               optional == FirstIndex(ins, <<"**OPTIONAL CONTEXT:**">>)
               sentence == FirstIndex(ins, <<NeverOverride(app)>>)
           IN  /\ optional <= Len(ins) /\ sentence <= Len(ins)
               /\ FirstIndex(ins, <<ConstraintsHeading(app)>>) < optional
               /\ \A l \in ConstraintLines(app) : FirstIndex(ins, <<l>>) < optional
               /\ optional < sentence
               /\ Contains(ins, <<NeverOverride(app)>> \o BetweenRules(shown))
               /\ sentence < FirstIndex(ins, BetweenRules(shown))

C14_Witness ==
    /\ AssembledCall /\ app = "app" /\ last.request.policy_context = <<"alpha", "beta">>
    /\ FirstIndex(last.instruction, <<"FEMA IS-700">>) < FirstIndex(last.instruction, <<"**OPTIONAL CONTEXT:**">>)
    /\ FirstIndex(last.instruction, <<NeverOverride("app")>>) < FirstIndex(last.instruction, <<"alpha", "beta">>)
    /\ FirstIndex(last.instruction, <<"alpha", "beta">>) <= Len(last.instruction)

-----------------------------------------------------------------------------
(* Claims on the result store *)

\* C15: whatever generate, edit and extract actions came before, the clear
\* operation leaves the result store the empty mapping and the stored
\* reference context the empty text.
C15_ClearResetsStoreAndContext ==
    [][ last'.op = "clear" => (generated_sections' = <<>> /\ pdf_context' = <<>>) ]_vars

C15_Witness ==
    /\ last.op = "clear" /\ service_calls = 2
    /\ generated_sections = <<>> /\ pdf_context = <<>>

\* C16: after a generation that succeeds for a section tag that already has
\* an entry (a generated text or a text the user typed), the result store
\* holds the newly generated text for that tag: the display pass of the rerun
\* does not bring the prior text back.
C16_RegenerationOverwrites ==
    [][ (/\ last'.op = "generate" /\ last'.cause = "success"
         /\ ~LooksLikeFailure(last'.value)
         /\ HasKey(generated_sections, last'.request.section_title)
         /\ ~LooksLikeFailure(DictValue(generated_sections, last'.request.section_title)))
            => DictValue(generated_sections', last'.request.section_title) = last'.value ]_vars

\* C17: a user edit of the text area of a displayed section leaves exactly
\* the typed text, unchanged and unchecked, as the stored text of that section
\* tag, leaves every other entry and the set of tags as they were, and the
\* exported document then holds that section with the typed text.
C17_EditReplacesThatSectionVerbatim ==
    [][ last'.op = "edit"
            => LET t == last'.request.section_title
                   x == last'.value
               IN  /\ HasKey(generated_sections, t)
                   /\ DictKeys(generated_sections') = DictKeys(generated_sections)
                   /\ DictValue(generated_sections', t) = x
                   /\ \A o \in KeySet(generated_sections) \ {t} :
                          DictValue(generated_sections', o) = DictValue(generated_sections, o)
                   /\ Contains(FullPolicyText(generated_sections'),
                               <<"## ">> \o t \o <<"\n", "\n">> \o x) ]_vars

C17_Witness ==
    /\ last.op = "edit" /\ Len(generated_sections) = 2
    /\ last.value = <<"Part one.", "\n", "\n", "---", "\n", "\n", "Part two.">>
    /\ DictValue(generated_sections, last.request.section_title) = last.value
    /\ Contains(FullPolicyText(generated_sections), last.value)

\* the runs of main that neither regenerate nor edit the tag t nor clear
LeavesAlone(op, request, t) ==
    \/ op \in {"extract", "toggle", "set_api_key", "set_inputs"}
    \/ op = "generate" /\ request.section_title # t

\* C18: the stored text of a section tag is left as it is, under the same
\* tag, by every run that generates another section tag, extracts PDF context,
\* toggles the full-draft preview or changes the API key or an input field.
C18_OtherActionsLeaveEntryUnchanged ==
    [][ \A t \in KeySet(generated_sections) :
            LeavesAlone(last'.op, last'.request, t)
                => /\ HasKey(generated_sections', t)
                   /\ DictValue(generated_sections', t) = DictValue(generated_sections, t) ]_vars

C18_Witness ==
    /\ last.op = "generate" /\ last.cause = "success" /\ Len(generated_sections) = 2
    /\ \E i \in 1..2 :
           /\ generated_sections[i].title # last.request.section_title
           /\ generated_sections[i].content = <<"Part one.", "\n", "\n", "---", "\n", "\n", "Part two.">>

-----------------------------------------------------------------------------
(* Claims on the extraction of reference text *)

RECURSIVE AllPages(_)
\* the pages of a batch, document after document
AllPages(pdf_docs) ==
    IF pdf_docs = <<>> THEN <<>> ELSE Head(pdf_docs).pages \o AllPages(Tail(pdf_docs))

\* text holds p, then at least one whitespace character, then q
SeparatedIn(text, p, q) ==
    \E i \in 1..Len(text) : \E n \in 1..Len(text) :
        /\ i + Len(p) + n + Len(q) - 1 <= Len(text)
        /\ SubSeq(text, i, i + Len(p) - 1) = p
        /\ \A k \in (i + Len(p))..(i + Len(p) + n - 1) : IsSpace(text[k])
        /\ SubSeq(text, i + Len(p) + n, i + Len(p) + n + Len(q) - 1) = q

\* C19: in the text get_pdf_text returns for a batch it read to the end, the
\* texts of any two consecutive pages that have text, in one document or in
\* two consecutive documents, have at least one whitespace character between
\* them.
C19_PagesSeparatedByWhitespace ==
    (last.op = "extract" /\ last.pdf_docs # <<>> /\ CorruptCount(last.pdf_docs) = 0)
        => LET pages == AllPages(last.pdf_docs)
           IN  \A i \in 1..(Len(pages) - 1) :
                   (Truthy(pages[i]) /\ Truthy(pages[i + 1]))
                       => SeparatedIn(last.value, pages[i], pages[i + 1])

\* C20: an extraction over a batch of one or more documents that all fail to
\* parse tells the user that no text could be extracted, shows no success
\* notice, and leaves the stored reference context as it was: nothing of that
\* batch is stored.
C20_AllDocumentsFail ==
    [][ (/\ last'.op = "extract" /\ last'.pdf_docs # <<>>
         /\ CorruptCount(last'.pdf_docs) = Len(last'.pdf_docs))
            => /\ \E i \in 1..Len(last'.notices) :
                      last'.notices[i] = Notice("error", "Could not extract any text from the uploaded PDFs.", <<>>)
               /\ ~HasNotice(last'.notices, "success")
               /\ pdf_context' = pdf_context ]_vars

C20_Witness ==
    /\ last.op = "extract" /\ Len(last.pdf_docs) = 2
    /\ CorruptCount(last.pdf_docs) = 2
    /\ HasNotice(last.notices, "error")
    /\ pdf_context = <<"alpha", "beta">>

\* the notices of one kind, in the order shown
NoticesOfKind(notices, kind) ==
    LET OfKind(n) == n.kind = kind IN SelectSeq(notices, OfKind)

\* the corrupt document of a batch that has exactly one
CorruptDoc(pdf_docs) == pdf_docs[CHOOSE i \in 1..Len(pdf_docs) : pdf_docs[i].corrupt]

\* C21: an extraction over a batch of several documents of which exactly one
\* fails to parse (the others holding text) shows the user exactly one error
\* notice, the one that names the corrupt document.
C21_OneErrorNoticeNamesCorruptDocument ==
    (/\ last.op = "extract" /\ Len(last.pdf_docs) >= 2
     /\ CorruptCount(last.pdf_docs) = 1
     /\ Truthy(get_pdf_text(ReadableDocs(last.pdf_docs)).value))
        => NoticesOfKind(last.notices, "error")
               = <<Notice("error", "Error reading PDF ", CorruptDoc(last.pdf_docs).name)>>

-----------------------------------------------------------------------------
(* Claims on the export and the display *)

RECURSIVE SectionsWithRules(_)
\* one "## <tag>", blank line, text for each item, a horizontal rule between
\* blank lines before every item but the first
SectionsWithRules(items) ==
    IF Len(items) = 1
    THEN <<"## ">> \o items[1].title \o <<"\n", "\n">> \o items[1].content
    ELSE SectionsWithRules(SubSeq(items, 1, Len(items) - 1))
         \o <<"\n", "\n", "---", "\n", "\n">>
         \o <<"## ">> \o items[Len(items)].title \o <<"\n", "\n">> \o items[Len(items)].content

\* how many times sub occurs in text
Occurrences(text, sub) ==
    Cardinality({i \in 0..(Len(text) - Len(sub)) : SubSeq(text, i + 1, i + Len(sub)) = sub})

\* C22: the exported document of a store with n >= 1 sections is its sections
\* one after the other, each as the line "## <tag>", a blank line and the
\* section text, with exactly one horizontal-rule separator between two
\* consecutive sections and none before the first or after the last: n
\* headings and n-1 separators (counted in the document when no section text
\* holds a heading line or a rule of its own).
C22_ExportFormat ==
    generated_sections # <<>>
        => LET export == FullPolicyText(generated_sections)
               n == Len(generated_sections)
           IN  /\ export = SectionsWithRules(generated_sections)
               /\ ~HasRule(generated_sections)
                      => Occurrences(export, <<"\n", "\n", "---", "\n", "\n">>) = n - 1
               /\ ~HasHeadingLine(generated_sections)
                      => Occurrences(export, <<"## ">>) = n

C22_Witness ==
    /\ Len(generated_sections) = 2
    /\ ~HasRule(generated_sections) /\ ~HasHeadingLine(generated_sections)
    /\ Occurrences(FullPolicyText(generated_sections), <<"## ">>) = 2
    /\ Occurrences(FullPolicyText(generated_sections), <<"\n", "\n", "---", "\n", "\n">>) = 1

-----------------------------------------------------------------------------
(* Claims on the session actions *)

\* C23: in tert.py and ng-911.py, after 'Clear All Session Data' the named
\* input fields are back at their default values, the result store is empty
\* and the reference context is empty.
C23_ClearWipesInputsStoreAndContext ==
    (last.op = "clear" /\ app \in {"tert", "ng911"})
        => /\ widget_inputs = DEFAULTS(app)
           /\ generated_sections = <<>>
           /\ pdf_context = <<>>

\* C24: in tert.py and ng-911.py the sections are displayed, one expander with
\* its text area per stored section, in lexicographic order of their tags,
\* whatever order they were generated in.
C24_DisplayInLexicographicOrder ==
    (app \in {"tert", "ng911"} /\ generated_sections # <<>>)
        => LET shown == sorted_sections(generated_sections)
           IN  /\ IsSortedTitles(shown)
               /\ Len(shown) = Len(generated_sections)
               /\ {shown[i] : i \in 1..Len(shown)} = KeySet(generated_sections)

C24_Witness ==
    /\ app = "ng911" /\ Len(generated_sections) = 2
    /\ StrLess(generated_sections[2].title, generated_sections[1].title)
    /\ sorted_sections(generated_sections)
           = <<generated_sections[2].title, generated_sections[1].title>>

\* C25: the generate action shows the "generated successfully" notice only
\* when generate_policy_section returned generated text; when it returned a
\* failure result (client construction or service call failed) the user is
\* shown an error notice and no success notice.
C25_SuccessNoticeOnlyOnSuccess ==
    last.op = "generate"
        => /\ HasNotice(last.notices, "success") => last.cause = "success"
           /\ last.cause \in {"client_init", "service_call"}
                  => /\ HasNotice(last.notices, "error")
                     /\ ~HasNotice(last.notices, "success")

\* C26: when a generate action run with a credential fails (client
\* construction or service call), the failure text is stored under the
\* selected section tag, in place of any text stored for that tag before, and
\* the exported document then holds it under that tag's heading like a
\* generated text.
C26_FailureTextStoredAndExported ==
    [][ (last'.op = "generate" /\ last'.cause \in {"client_init", "service_call"})
            => LET t == last'.request.section_title
               IN  /\ HasKey(generated_sections', t)
                   /\ LooksLikeFailure(last'.value)
                   /\ DictValue(generated_sections', t) = last'.value
                   /\ Contains(FullPolicyText(generated_sections'),
                               <<"## ">> \o t \o <<"\n", "\n">> \o last'.value) ]_vars

\* C27: when the generate button is pressed while the session holds no API
\* key, main shows the "Please enter your Gemini API Key" error and nothing
\* else, obtains no result from generate_policy_section, constructs no client
\* and issues no service call, and leaves the result store, the reference
\* context and the preview flag as they were.
C27_GenerateWithoutKeyChangesNothing ==
    [][ (last'.op = "generate" /\ ~Truthy(gemini_api_key))
            => /\ last'.notices = <<Notice("error", "Please enter your Gemini API Key in the sidebar to proceed.", <<>>)>>
               /\ last'.value = None
               /\ client_inits' = client_inits /\ service_calls' = service_calls
               /\ generated_sections' = generated_sections
               /\ pdf_context' = pdf_context
               /\ show_full_draft' = show_full_draft ]_vars

C27_Witness ==
    /\ last.op = "generate" /\ last.cause = "no_session_key"
    /\ ~Truthy(gemini_api_key)
    /\ generated_sections # <<>> /\ show_full_draft /\ pdf_context = <<"alpha", "beta">>
    /\ client_inits = 1

\* C28: an 'Extract PDF Context' run over uploaded files whose extraction
\* fails or yields only whitespace leaves pdf_context as it was; pdf_context
\* changes only in a successful extraction (to the extracted text), in an
\* extraction with no files uploaded (to "") and in a clear (to ""); and a
\* generation hands the pdf_context of the session to generate_policy_section,
\* so a generation after a failed extraction uses the earlier context.
C28_FailedExtractionKeepsContext ==
    [][ /\ (last'.op = "extract" /\ last'.pdf_docs # <<>> /\ ~Truthy(last'.value))
              => pdf_context' = pdf_context
        /\ (pdf_context' # pdf_context)
              => \/ last'.op = "extract" /\ last'.pdf_docs # <<>>
                      /\ Truthy(last'.value) /\ pdf_context' = last'.value
                 \/ last'.op = "extract" /\ last'.pdf_docs = <<>> /\ pdf_context' = <<>>
                 \/ last'.op = "clear" /\ pdf_context' = <<>>
        /\ (last'.op = "generate" /\ last'.cause # "no_session_key")
              => last'.request.policy_context = pdf_context ]_vars

C28_Witness ==
    /\ last.op = "extract" /\ last.pdf_docs # <<>> /\ last.value = <<>>
    /\ HasNotice(last.notices, "error")
    /\ pdf_context = <<"alpha", "beta">>

\* C29: 'Extract PDF Context' pressed with no files uploaded sets pdf_context
\* to "" and shows the "No PDFs uploaded." warning, and a generation run while
\* pdf_context is "" assembles its instruction with the
\* "No external document context provided." placeholder.
C29_ExtractWithoutFilesResetsContext ==
    [][ /\ (last'.op = "extract" /\ last'.pdf_docs = <<>>)
              => /\ pdf_context' = <<>>
                 /\ last'.notices = <<Notice("warning", "No PDFs uploaded.", <<>>)>>
        /\ (last'.op = "generate" /\ last'.cause \in {"success", "service_call"}
                /\ pdf_context = <<>>)
              => /\ last'.request.policy_context = <<>>
                 /\ Contains(last'.instruction, <<"No external document context provided.">>) ]_vars

C29_Witness ==
    /\ last.op = "extract" /\ last.pdf_docs = <<>> /\ pdf_context = <<>>
    /\ generated_sections # <<>>
    /\ \E i \in 1..Len(generated_sections) : ~LooksLikeFailure(generated_sections[i].content)

=============================================================================
